---- MODULE Spec2Model ----
(***************************************************************************)
(* The bounded double-ended queue exercised by the "Here we test deque"    *)
(* cell of try.ipynb: collections.deque(iterable, maxlen=C) with append,   *)
(* appendleft, pop, popleft, list() and len().  The specification text     *)
(* calls these append_back, append_front, pop_back, pop_front,             *)
(* to_sequence and len, and calls Python's IndexError EmptyBufferError.    *)
(***************************************************************************)
EXTENDS Integers, Sequences, FiniteSets, TLC

\* ---------------------------------------------------------------- bounds
MaxCap == 3          \* capacities 0..MaxCap
MaxVal == 2          \* element values 1..MaxVal
MaxOps == 4          \* method calls made after construction
MaxCalls == 3        \* Singleton() calls
MaxWrites == 1       \* file.write calls in the body of a with block

MaxInit == MaxCap + 1   \* longest iterable handed to the constructor

Values == 1..MaxVal

\* the constructor calls of the notebook: deque([1,2,3,4,5],maxlen=3) and
\* deque([1,2,3,4,5],maxlen=5)
NotebookIterable == <<1, 2, 3, 4, 5>>
NotebookMaxlens == {3, 5}

Capacities == (0..MaxCap) \cup NotebookMaxlens

None == 0                    \* Python's None: no argument / no return value
NoError == "ok"
IndexError == "IndexError"   \* "pop from an empty deque"

RECURSIVE SeqsUpTo(_)
SeqsUpTo(n) ==
    IF n = 0 THEN {<<>>}
    ELSE LET shorter == SeqsUpTo(n - 1)
         IN  shorter \cup {Append(s, v) : s \in {t \in shorter : Len(t) = n - 1}, v \in Values}

Iterables == SeqsUpTo(MaxInit) \cup {NotebookIterable}

\* ------------------------------------------------------- sequence helpers
Front(s) == SubSeq(s, 1, Len(s) - 1)
Last(s) == s[Len(s)]
Min(a, b) == IF a <= b THEN a ELSE b
\* the last n elements of s, in order (all of s when it is shorter)
LastN(s, n) == SubSeq(s, Len(s) - Min(n, Len(s)) + 1, Len(s))

\* ------------------------------------------------ collections.deque methods
\* Each method is a function of the contents d (oldest first) and, where it
\* matters, the maxlen m; it yields the new contents, the value returned to
\* the caller and the exception raised.
Outcome(d, ret, err) == [items |-> d, ret |-> ret, err |-> err]

\* faulty variants of NEEDS_TRIM: one element too late; one element too early;
\* a maxlen of 0 taken for "no bound"
NEEDS_TRIM_late(d, m) == Len(d) > m + 1
NEEDS_TRIM_early(d, m) == Len(d) >= m
NEEDS_TRIM_nonzero(d, m) == m > 0 /\ Len(d) > m

\* the deque holds more than maxlen elements and must drop one
NEEDS_TRIM(d, m) == Len(d) > m

\* faulty variant of pop: removes the rightmost element, returns the leftmost
deque_pop_wrongend(d) ==
    IF Len(d) = 0 THEN Outcome(d, None, IndexError)
    ELSE Outcome(Front(d), Head(d), NoError)

\* pop(): remove and return the rightmost element
deque_pop(d) ==
    IF Len(d) = 0 THEN Outcome(d, None, IndexError)
    ELSE Outcome(Front(d), Last(d), NoError)

\* faulty variants of popleft: returns None from an empty deque instead of
\* raising; returns the leftmost element without removing it
deque_popleft_silent(d) ==
    IF Len(d) = 0 THEN Outcome(d, None, NoError)
    ELSE Outcome(Tail(d), Head(d), NoError)
deque_popleft_peek(d) ==
    IF Len(d) = 0 THEN Outcome(d, None, IndexError)
    ELSE Outcome(d, Head(d), NoError)

\* popleft(): remove and return the leftmost element
deque_popleft(d) ==
    IF Len(d) = 0 THEN Outcome(d, None, IndexError)
    ELSE Outcome(Tail(d), Head(d), NoError)

\* faulty variants of append: on overflow drops the element just added;
\* refuses a full deque with an exception
deque_append_dropnew(d, x, m) ==
    LET grown == Append(d, x)
    IN  IF NEEDS_TRIM(grown, m)
        THEN Outcome(deque_pop(grown).items, None, NoError)
        ELSE Outcome(grown, None, NoError)
deque_append_raise(d, x, m) ==
    IF Len(d) >= m /\ m > 0 THEN Outcome(d, None, "Full")
    ELSE LET grown == Append(d, x)
         IN  IF NEEDS_TRIM(grown, m)
             THEN Outcome(deque_popleft(grown).items, None, NoError)
             ELSE Outcome(grown, None, NoError)

\* append(x): add x on the right, then drop the leftmost element on overflow
deque_append(d, x, m) ==
    LET grown == Append(d, x)
    IN  IF NEEDS_TRIM(grown, m)
        THEN Outcome(deque_popleft(grown).items, None, NoError)
        ELSE Outcome(grown, None, NoError)

\* faulty variant of appendleft: on overflow drops the leftmost element
deque_appendleft_dropleft(d, x, m) ==
    LET grown == <<x>> \o d
    IN  IF NEEDS_TRIM(grown, m)
        THEN Outcome(deque_popleft(grown).items, None, NoError)
        ELSE Outcome(grown, None, NoError)

\* faulty variant of appendleft: adds x on the right
deque_appendleft_right(d, x, m) ==
    LET grown == Append(d, x)
    IN  IF NEEDS_TRIM(grown, m)
        THEN Outcome(deque_pop(grown).items, None, NoError)
        ELSE Outcome(grown, None, NoError)

\* appendleft(x): add x on the left, then drop the rightmost element on overflow
deque_appendleft(d, x, m) ==
    LET grown == <<x>> \o d
    IN  IF NEEDS_TRIM(grown, m)
        THEN Outcome(deque_pop(grown).items, None, NoError)
        ELSE Outcome(grown, None, NoError)

\* deque(iterable, maxlen=m): an empty deque extended by append, element by
\* element in iteration order
RECURSIVE deque_extend(_, _, _)
deque_extend(d, iterable, m) ==
    IF iterable = <<>> THEN d
    ELSE deque_extend(deque_append(d, Head(iterable), m).items, Tail(iterable), m)

\* faulty variant of the constructor: keeps the first m elements
deque_init_first(iterable, m) == SubSeq(iterable, 1, Min(m, Len(iterable)))

deque_init(iterable, m) == deque_extend(<<>>, iterable, m)

\* faulty variant of list(dq): hands the contents out by draining the deque
deque_list_drain(d) == Outcome(<<>>, d, NoError)

\* list(dq) / print(dq): the contents, oldest (leftmost) first; read-only
deque_list(d) == Outcome(d, d, NoError)

\* len(dq): the element count; read-only
deque_len(d) == Outcome(d, Len(d), NoError)

\* ------------------------------------------------------- attribute lookup
\* An instance's own attributes (its __dict__) are a function from attribute
\* names to values; so are a class's attributes.
NoAttributes == [a \in {} |-> None]

\* faulty variant of attribute read: the class attribute hides the instance's
getattr_classfirst(classDict, instDict, a) ==
    IF a \in DOMAIN classDict THEN classDict[a] ELSE instDict[a]

\* obj.a: the instance's own attribute if it has one, else the class attribute
getattr(classDict, instDict, a) ==
    IF a \in DOMAIN instDict THEN instDict[a] ELSE classDict[a]

\* obj.a = v: always the instance's own attribute
setattr(instDict, a, v) ==
    [b \in DOMAIN instDict \cup {a} |-> IF b = a THEN v ELSE instDict[b]]

\* del obj.a: removes the instance's own attribute
delattr(instDict, a) ==
    [b \in DOMAIN instDict \ {a} |-> instDict[b]]

\* -------------------------------------------------------- the Singleton cell
Creating == "Creating the instance"
Initializing == "Initializing the instance"
AlreadyInitialized == "Instance already initialized"

\* class Singleton: _is_initialized = False; _instance is the variable below
SingletonClassDict == [_is_initialized |-> FALSE]

\* faulty variant of __new__: the instance is created but not stored in the class
Singleton_new_unstored(instance, objs) ==
    IF instance = None
    THEN [instance |-> None, objects |-> Append(objs, NoAttributes),
          out |-> <<Creating>>, obj |-> Len(objs) + 1]
    ELSE [instance |-> instance, objects |-> objs, out |-> <<>>, obj |-> instance]

\* Singleton.__new__(cls): objs are the Singleton objects created so far, each
\* known by its position; yields the new cls._instance, the objects, the lines
\* printed and the object returned
Singleton_new(instance, objs) ==
    IF instance = None
    THEN [instance |-> Len(objs) + 1, objects |-> Append(objs, NoAttributes),
          out |-> <<Creating>>, obj |-> Len(objs) + 1]
    ELSE [instance |-> instance, objects |-> objs, out |-> <<>>, obj |-> instance]

\* faulty variant of __init__: tests the class's _is_initialized, not self's
Singleton_init_classflag(objs, self) ==
    IF SingletonClassDict._is_initialized
    THEN [objects |-> objs, out |-> <<AlreadyInitialized>>]
    ELSE [objects |-> [objs EXCEPT ![self] = setattr(objs[self], "_is_initialized", TRUE)],
          out |-> <<Initializing>>]

\* Singleton.__init__(self)
Singleton_init(objs, self) ==
    IF getattr(SingletonClassDict, objs[self], "_is_initialized")
    THEN [objects |-> objs, out |-> <<AlreadyInitialized>>]
    ELSE [objects |-> [objs EXCEPT ![self] = setattr(objs[self], "_is_initialized", TRUE)],
          out |-> <<Initializing>>]

\* ------------------------------------------- the MyClassLock and MyClass cells
TheLock == "Lock()"                 \* the lock made in the class body
LockInstances == {"class1", "class2"}
LockValues == {"1", "another Lock()"}     \* what an instance's lock is set to

SharedInstances == {"instance1", "instance2"}
SharedValues == {10, 20, 30}

AttributeError == "AttributeError"

\* ------------------------------------------------ the context manager cell
\* A file object: whether it is open, and how often it has been released.
NoFile == [open |-> FALSE, closes |-> 0]

\* open(path, mode)
file_open == [open |-> TRUE, closes |-> 0]

\* f.close(), and the exit of "with open(...) as f": releases an open file
file_close(f) == IF f.open THEN [open |-> FALSE, closes |-> f.closes + 1] ELSE f

\* open_file up to its yield: f = open(path, mode); try: yield f
open_file_enter == [file |-> file_open, out |-> <<>>]

\* faulty variant of open_file's second half: close() after the yield without
\* try/finally, so not reached when the block raised
open_file_resume_nofinally(f, exc) ==
    IF exc = NoError THEN [file |-> file_close(f), raised |-> exc]
    ELSE [file |-> f, raised |-> exc]

\* open_file from its yield on, resumed normally or with the block's
\* exception thrown in: finally: f.close(); the exception goes on
open_file_resume(f, exc) == [file |-> file_close(f), raised |-> exc]

\* open_file2 up to its yield: with open(path, mode) as f: print(...); yield f
open_file2_enter == [file |-> file_open, out |-> <<"File opened">>]

\* open_file2 from its yield on: the inner with statement ends, normally or by
\* the exception thrown in, and releases the file; the exception goes on
open_file2_resume(f, exc) == [file |-> file_close(f), raised |-> exc]

Managers == {"open_file", "open_file2"}
BlockExceptions == {"Exception"}    \* what the body of the with block may raise

manager_enter(m) == IF m = "open_file" THEN open_file_enter ELSE open_file2_enter
manager_resume(m, f, exc) ==
    IF m = "open_file" THEN open_file_resume(f, exc) ELSE open_file2_resume(f, exc)

VARIABLES
    cm,                  \* the context manager of the with statement being run
    pc,                  \* where the with statement is: idle, body, done, failed
    file,                \* the file object the manager opened
    writes,              \* file.write calls made in the body
    raised,              \* the exception that left the with statement
    cmout                \* the lines this cell has printed

VARIABLES
    Singleton_instance,  \* Singleton._instance: None or the object created
    objects,             \* the Singleton objects created, each its own attributes
    refs,                \* what the Singleton() calls returned, in order
    stdout,              \* the lines the Singleton cell has printed
    lockClass,           \* the attributes of class MyClassLock
    lockDict,            \* own attributes of class1 and class2
    sharedClass,         \* the attributes of class MyClass
    sharedDict,          \* own attributes of instance1 and instance2
    stmt                 \* the statement of these cells executed last

withVars == <<cm, pc, file, writes, raised, cmout>>
cellVars == <<Singleton_instance, objects, refs, stdout,
              lockClass, lockDict, sharedClass, sharedDict, stmt, withVars>>

\* the cells before any of their statements after the class bodies has run
CellsInit ==
    /\ Singleton_instance = None
    /\ objects = <<>>
    /\ refs = <<>>
    /\ stdout = <<>>
    /\ lockClass = [lock |-> TheLock]
    /\ lockDict = [i \in LockInstances |-> NoAttributes]
    /\ sharedClass = [shared_var |-> 10]
    /\ sharedDict = [i \in SharedInstances |-> NoAttributes]
    /\ stmt = [op |-> "none", who |-> "", err |-> NoError]
    /\ cm = "none"
    /\ pc = "idle"
    /\ file = NoFile
    /\ writes = 0
    /\ raised = NoError
    /\ cmout = <<>>

\* ------------------------------------------- the unbounded comparison deque
\* A double-ended sequence without a maxlen, run on the same calls as the
\* bounded deque: nothing is ever dropped from it.
unbounded_append(d, x) == [items |-> d \o <<x>>, ret |-> None, err |-> NoError]
unbounded_appendleft(d, x) == [items |-> <<x>> \o d, ret |-> None, err |-> NoError]
unbounded_pop(d) ==
    IF d = <<>> THEN [items |-> d, ret |-> None, err |-> IndexError]
    ELSE [items |-> [i \in 1..(Len(d) - 1) |-> d[i]], ret |-> d[Len(d)], err |-> NoError]
unbounded_popleft(d) ==
    IF d = <<>> THEN [items |-> d, ret |-> None, err |-> IndexError]
    ELSE [items |-> [i \in 1..(Len(d) - 1) |-> d[i + 1]], ret |-> d[1], err |-> NoError]
unbounded_read(d) == [items |-> d, ret |-> None, err |-> NoError]

\* ------------------------------------------------------------------ state
VARIABLES
    maxlen,     \* the deque's maxlen, fixed by the constructor
    items,      \* the deque's contents, leftmost (oldest) first
    last,       \* the most recent call: name, argument, result, contents before
    prev,       \* the call before that
    run,        \* the values appended on the right since the deque was last
                \* empty, while nothing else has been called on it
    inRun,      \* TRUE while run is being recorded
    nops,       \* number of method calls made after construction
    ref,        \* contents of the unbounded comparison deque given the same calls
    refOut,     \* what the comparison deque's last call returned and raised
    inserted    \* number of elements ever inserted, the constructor's included,
                \* counted up to maxlen: the comparison is over once it gets there

dequeVars == <<maxlen, items, last, prev, run, inRun, nops, ref, refOut, inserted>>
vars == <<dequeVars, cellVars>>

Call(op, arg, out, pre, m) ==
    [op |-> op, arg |-> arg, ret |-> out.ret, err |-> out.err, pre |-> pre, premaxlen |-> m]

NoCall == [op |-> "none", arg |-> None, ret |-> None, err |-> NoError, pre |-> <<>>, premaxlen |-> 0]

\* The comparison deque after a call that left it as out, total elements having
\* been inserted so far.  It is kept only while total is below the capacity m.
Compare(out, total, m) ==
    IF total < m
    THEN ref = out.items /\ refOut = [ret |-> out.ret, err |-> out.err] /\ inserted = total
    ELSE ref = <<>> /\ refOut = [ret |-> None, err |-> NoError] /\ inserted = m

\* dq = deque(iterable, maxlen=C): the constructor starts from an empty deque
\* and appends the iterable's elements on the right, so they open the run
Init ==
    \E iterable \in Iterables, C \in Capacities :
        /\ CellsInit
        /\ maxlen = C
        /\ items = deque_init(iterable, C)
        /\ last = Call("deque", iterable, Outcome(<<>>, None, NoError), <<>>, C)
        /\ prev = NoCall
        /\ inRun = TRUE
        /\ run = iterable
        /\ nops = 0
        /\ Compare([items |-> iterable, ret |-> None, err |-> NoError], Len(iterable), C)

\* the effect every method call has on the recorded history
Record(op, arg, out) ==
    /\ nops < MaxOps
    /\ nops' = nops + 1
    /\ items' = out.items
    /\ prev' = last
    /\ last' = Call(op, arg, out, items, maxlen)
    /\ UNCHANGED maxlen
    /\ UNCHANGED cellVars

\* the same call made on the comparison deque; n elements were inserted
Mirror(out, n) ==
    IF inserted + n < maxlen
    THEN /\ ref' = out.items
         /\ refOut' = [ret |-> out.ret, err |-> out.err]
         /\ inserted' = inserted + n
    ELSE /\ ref' = <<>>
         /\ refOut' = [ret |-> None, err |-> NoError]
         /\ inserted' = maxlen

\* dq.append(x)
append(x) ==
    /\ Record("append", x, deque_append(items, x, maxlen))
    /\ Mirror(unbounded_append(ref, x), 1)
    /\ inRun' = inRun
    /\ run' = IF inRun THEN Append(run, x) ELSE run

\* any call other than append ends the run; a new one starts if the deque is empty
EndRun ==
    /\ inRun' = (items' = <<>>)
    /\ run' = <<>>

\* the value a call may pass on: an element value, or the value the call just
\* before it returned, as in dq1.appendleft(dq1.pop())
Arguments ==
    Values \cup (IF last.op \in {"pop", "popleft"} /\ last.err = NoError THEN {last.ret} ELSE {})

\* dq.appendleft(x)
appendleft(x) ==
    /\ Record("appendleft", x, deque_appendleft(items, x, maxlen))
    /\ Mirror(unbounded_appendleft(ref, x), 1)
    /\ EndRun

\* dq.pop()
pop ==
    /\ Record("pop", None, deque_pop(items))
    /\ Mirror(unbounded_pop(ref), 0)
    /\ EndRun

\* dq.popleft()
popleft ==
    /\ Record("popleft", None, deque_popleft(items))
    /\ Mirror(unbounded_popleft(ref), 0)
    /\ EndRun

\* list(dq)
tolist ==
    /\ Record("list", None, deque_list(items))
    /\ Mirror(unbounded_read(ref), 0)
    /\ UNCHANGED <<run, inRun>>

\* len(dq)
len ==
    /\ Record("len", None, deque_len(items))
    /\ Mirror(unbounded_read(ref), 0)
    /\ UNCHANGED <<run, inRun>>

Next ==
    \/ \E x \in Arguments : append(x)
    \/ \E x \in Arguments : appendleft(x)
    \/ pop
    \/ popleft
    \/ tolist
    \/ len

Spec == Init /\ [][Next]_vars

\* ------------------------------------------------- the other cells' steps
\* the deque cell as the notebook leaves it: dq1 after line 403
InitCells ==
    /\ CellsInit
    /\ maxlen = 5
    /\ items = <<5, 1, 2, 3, 4>>
    /\ last = Call("appendleft", 5, Outcome(items, None, NoError), <<1, 2, 3, 4>>, 5)
    /\ prev = Call("pop", None, Outcome(<<1, 2, 3, 4>>, 5, NoError), NotebookIterable, 5)
    /\ run = <<>>
    /\ inRun = FALSE
    /\ nops = 2
    /\ ref = <<>>
    /\ refOut = [ret |-> None, err |-> NoError]
    /\ inserted = 5

Stmt(op, who, err) == [op |-> op, who |-> who, err |-> err]

\* singletonN = Singleton(): __new__, then __init__ on the object it returned
Singleton_call ==
    /\ Len(refs) < MaxCalls
    /\ LET made == Singleton_new(Singleton_instance, objects)
           inited == Singleton_init(made.objects, made.obj)
       IN  /\ Singleton_instance' = made.instance
           /\ objects' = inited.objects
           /\ refs' = Append(refs, made.obj)
           /\ stdout' = stdout \o made.out \o inited.out
    /\ stmt' = Stmt("Singleton()", "Singleton", NoError)
    /\ UNCHANGED <<lockClass, lockDict, sharedClass, sharedDict, withVars>>
    /\ UNCHANGED dequeVars

\* faulty variant of classN.lock = v: rebinds the class's attribute
lock_assign_class(i, v) ==
    /\ lockClass' = setattr(lockClass, "lock", v)
    /\ stmt' = Stmt("lock=", i, NoError)
    /\ UNCHANGED <<Singleton_instance, objects, refs, stdout, lockDict, sharedClass, sharedDict, withVars>>
    /\ UNCHANGED dequeVars

\* classN.lock = v
lock_assign(i, v) ==
    /\ lockDict' = [lockDict EXCEPT ![i] = setattr(lockDict[i], "lock", v)]
    /\ stmt' = Stmt("lock=", i, NoError)
    /\ UNCHANGED <<Singleton_instance, objects, refs, stdout, lockClass, sharedClass, sharedDict, withVars>>
    /\ UNCHANGED dequeVars

\* instanceN.shared_var = v
shared_assign(i, v) ==
    /\ sharedDict' = [sharedDict EXCEPT ![i] = setattr(sharedDict[i], "shared_var", v)]
    /\ stmt' = Stmt("shared_var=", i, NoError)
    /\ UNCHANGED <<Singleton_instance, objects, refs, stdout, lockClass, lockDict, sharedClass, withVars>>
    /\ UNCHANGED dequeVars

\* MyClass.shared_var = v
shared_assign_class(v) ==
    /\ sharedClass' = setattr(sharedClass, "shared_var", v)
    /\ stmt' = Stmt("MyClass.shared_var=", "MyClass", NoError)
    /\ UNCHANGED <<Singleton_instance, objects, refs, stdout, lockClass, lockDict, sharedDict, withVars>>
    /\ UNCHANGED dequeVars

\* del instanceN.shared_var: AttributeError when the instance has none of its own
shared_del(i) ==
    /\ IF "shared_var" \in DOMAIN sharedDict[i]
       THEN /\ sharedDict' = [sharedDict EXCEPT ![i] = delattr(sharedDict[i], "shared_var")]
            /\ stmt' = Stmt("del shared_var", i, NoError)
       ELSE /\ sharedDict' = sharedDict
            /\ stmt' = Stmt("del shared_var", i, AttributeError)
    /\ UNCHANGED <<Singleton_instance, objects, refs, stdout, lockClass, lockDict, sharedClass, withVars>>
    /\ UNCHANGED dequeVars

otherCells == <<Singleton_instance, objects, refs, stdout,
                lockClass, lockDict, sharedClass, sharedDict>>

\* with open_file(...) as file: / with open_file2(...) as file: up to the
\* start of the body.  open() may fail, and then there is no file and no body.
with_enter(m, ok) ==
    /\ pc = "idle"
    /\ cm' = m
    /\ writes' = 0
    /\ IF ok
       THEN /\ file' = manager_enter(m).file
            /\ cmout' = manager_enter(m).out
            /\ raised' = NoError
            /\ pc' = "body"
       ELSE /\ file' = NoFile
            /\ cmout' = <<>>
            /\ raised' = "OSError"
            /\ pc' = "failed"
    /\ stmt' = Stmt("with", m, IF ok THEN NoError ELSE "OSError")
    /\ UNCHANGED otherCells
    /\ UNCHANGED dequeVars

\* the end of the with statement: the manager's generator is resumed, with the
\* exception exc thrown in if the body raised one, and exc leaves the statement
with_leave(exc) ==
    /\ LET after == manager_resume(cm, file, exc)
       IN  /\ file' = after.file
           /\ raised' = after.raised
    /\ pc' = "done"
    /\ stmt' = Stmt("end with", cm, exc)
    /\ UNCHANGED <<cm, writes, cmout>>
    /\ UNCHANGED otherCells
    /\ UNCHANGED dequeVars

\* file.write("Hello, world!") in the body; ValueError on a closed file
with_write ==
    /\ pc = "body"
    /\ writes < MaxWrites
    /\ IF file.open
       THEN /\ writes' = writes + 1
            /\ stmt' = Stmt("write", cm, NoError)
            /\ UNCHANGED <<cm, pc, file, raised, cmout>>
            /\ UNCHANGED otherCells
            /\ UNCHANGED dequeVars
       ELSE with_leave("ValueError")

\* the body ends normally
with_exit ==
    /\ pc = "body"
    /\ with_leave(NoError)

\* raise Exception(...) in the body
with_raise(exc) ==
    /\ pc = "body"
    /\ with_leave(exc)

\* the cell is run again
with_again ==
    /\ pc \in {"done", "failed"}
    /\ pc' = "idle"
    /\ cm' = "none"
    /\ file' = NoFile
    /\ writes' = 0
    /\ raised' = NoError
    /\ cmout' = <<>>
    /\ stmt' = Stmt("run cell", cm, NoError)
    /\ UNCHANGED otherCells
    /\ UNCHANGED dequeVars

NextCells ==
    \/ \E m \in Managers, ok \in BOOLEAN : with_enter(m, ok)
    \/ with_write
    \/ with_exit
    \/ \E exc \in BlockExceptions : with_raise(exc)
    \/ with_again
    \/ Singleton_call
    \/ \E i \in LockInstances, v \in LockValues : lock_assign(i, v)
    \/ \E i \in SharedInstances, v \in SharedValues : shared_assign(i, v)
    \/ \E v \in SharedValues : shared_assign_class(v)
    \/ \E i \in SharedInstances : shared_del(i)

SpecCells == InitCells /\ [][NextCells]_vars

\* ----------------------------------------------------------------- claims
Pops == {"pop", "popleft"}

\* C1: after construction and after every call, failing pops included, the
\* element count is between 0 and the capacity, and so is what len() returns.
C1_SizeWithinCapacity ==
    /\ 0 <= Len(items)
    /\ Len(items) <= maxlen
    /\ last.op = "len" => (last.ret = Len(items) /\ 0 <= last.ret /\ last.ret <= maxlen)

\* C1 case: two appends in a row, the second on a full deque, which is still
\* full afterwards
C1_Witness ==
    /\ maxlen >= 1
    /\ prev.op = "append" /\ last.op = "append"
    /\ Len(last.pre) = maxlen /\ Len(items) = maxlen
    /\ nops >= 3

\* C2: when more values than the capacity C >= 1 were appended on the right of
\* an empty deque, the contents are the last C of them in their original
\* order; capacity 3 with 1,2,3,4,5 holds [3,4,5].
C2_AppendKeepsLastC ==
    /\ (inRun /\ maxlen >= 1 /\ Len(run) > maxlen) => items = LastN(run, maxlen)
    /\ (inRun /\ maxlen = 3 /\ run = <<1, 2, 3, 4, 5>>) => items = <<3, 4, 5>>

\* C2 case: an empty deque of capacity >= 2 that has only been appended to, more
\* often than its capacity, with values that tell the old from the new
C2_Witness ==
    /\ inRun /\ last.op = "append" /\ maxlen >= 2
    /\ nops = Len(run) /\ Len(run) > maxlen
    /\ run[1] # run[Len(run)]

\* C3: after N appends on the right of an empty deque of capacity C >= 0 the
\* element count, and what len() returns, is min(N, C).
C3_LenIsMinOfAppendsAndCapacity ==
    inRun =>
        /\ Len(items) = Min(Len(run), maxlen)
        /\ last.op = "len" => last.ret = Min(Len(run), maxlen)

\* C3 case: len() called after more appends than the capacity
C3_Witness ==
    /\ inRun /\ last.op = "len" /\ prev.op = "append"
    /\ Len(run) > maxlen /\ maxlen >= 1 /\ last.ret = maxlen

\* C4: the constructor keeps the last C elements of its iterable in their
\* order, which is the whole iterable when it has at most C elements;
\* deque([1,2,3,4,5], maxlen=3) holds [3,4,5].
C4_ConstructorKeepsLastC ==
    last.op = "deque" =>
        /\ items = LastN(last.arg, maxlen)
        /\ Len(last.arg) <= maxlen => items = last.arg
        /\ (last.arg = <<1, 2, 3, 4, 5>> /\ maxlen = 3) => items = <<3, 4, 5>>

\* C4 case: the notebook's deque([1,2,3,4,5], maxlen=3)
C4_Witness ==
    /\ last.op = "deque" /\ last.arg = NotebookIterable /\ maxlen = 3
    /\ items = <<3, 4, 5>>

\* C5: pop and popleft on an empty deque raise, and leave the deque empty with
\* its capacity unchanged.
C5_EmptyPopFailsAndChangesNothing ==
    (last.op \in Pops /\ last.pre = <<>>) =>
        /\ last.err = IndexError
        /\ items = <<>>
        /\ maxlen = last.premaxlen

\* C5 case: popleft has failed on an empty deque that could hold elements
C5_Witness ==
    /\ last.op = "popleft" /\ last.pre = <<>> /\ last.err = IndexError
    /\ maxlen >= 1

\* C6 as stated: for every capacity C >= 0, appendleft(v) on an empty deque
\* followed at once by popleft() returns v and leaves the deque empty.
C6_RoundTripAnyCapacity ==
    (prev.op = "appendleft" /\ prev.pre = <<>> /\ last.op = "popleft") =>
        /\ last.err = NoError
        /\ last.ret = prev.arg
        /\ items = <<>>

\* C6 amended: the round trip holds for every capacity C >= 1; with C = 0 the
\* value is discarded by appendleft and popleft raises on the empty deque.
C6_RoundTripPositiveCapacity ==
    (prev.op = "appendleft" /\ prev.pre = <<>> /\ last.op = "popleft") =>
        /\ items = <<>>
        /\ maxlen >= 1 => (last.err = NoError /\ last.ret = prev.arg)
        /\ maxlen = 0 => (last.err = IndexError /\ last.ret = None)

\* C6 case: the round trip has been made on a deque of positive capacity
C6_Witness ==
    /\ prev.op = "appendleft" /\ prev.pre = <<>> /\ last.op = "popleft"
    /\ maxlen >= 1 /\ last.ret = prev.arg

\* C7: appendleft(v) on a deque holding exactly C >= 1 elements puts v first
\* and drops the element that was last; the count stays C.
C7_AppendLeftEvictsLast ==
    (last.op = "appendleft" /\ maxlen >= 1 /\ Len(last.pre) = maxlen) =>
        /\ items = <<last.arg>> \o Front(last.pre)
        /\ Len(items) = maxlen

\* C7 case: appendleft on a full deque whose ends differ from the new value
C7_Witness ==
    /\ last.op = "appendleft" /\ maxlen >= 2 /\ Len(last.pre) = maxlen
    /\ last.arg # Head(last.pre) /\ Head(last.pre) # Last(last.pre)

\* C8: on a non-empty deque pop() returns the last element, and appendleft of
\* that value gives the old contents rotated right by one: same length, same
\* elements, nothing evicted; [1,2,3,4,5] with capacity 5 gives 5 and
\* [5,1,2,3,4].
C8_PopThenAppendLeftRotates ==
    (prev.op = "pop" /\ prev.pre # <<>> /\ last.op = "appendleft" /\ last.arg = prev.ret) =>
        /\ prev.err = NoError
        /\ prev.ret = Last(prev.pre)
        /\ last.pre = Front(prev.pre)
        /\ items = <<Last(prev.pre)>> \o Front(prev.pre)
        /\ Len(items) = Len(prev.pre)
        /\ Len(items) = Len(last.pre) + 1
        /\ (prev.pre = <<1, 2, 3, 4, 5>> /\ maxlen = 5) =>
               (prev.ret = 5 /\ items = <<5, 1, 2, 3, 4>>)

\* C8 case: the notebook's dq1.appendleft(dq1.pop()) on deque([1,2,3,4,5], maxlen=5)
C8_Witness ==
    /\ maxlen = 5 /\ nops = 2
    /\ prev.op = "pop" /\ prev.pre = NotebookIterable
    /\ last.op = "appendleft" /\ last.arg = 5
    /\ items = <<5, 1, 2, 3, 4>>

\* C9: a call raises exactly when it is pop or popleft on an empty deque;
\* append, appendleft, list and len never raise, full deque or not.
C9_OnlyEmptyPopsFail ==
    /\ (last.err # NoError) <=> (last.op \in Pops /\ last.pre = <<>>)
    /\ (prev.err # NoError) <=> (prev.op \in Pops /\ prev.pre = <<>>)

\* C9 case: an append on a full deque, then a pop, both without error
C9_Witness ==
    /\ maxlen >= 1
    /\ prev.op = "append" /\ Len(prev.pre) = maxlen /\ prev.err = NoError
    /\ last.op = "pop" /\ last.err = NoError

\* C10: a deque of capacity 0 is always empty: every append and appendleft
\* finds it empty and leaves it empty, len() returns 0 and list() returns [].
C10_ZeroCapacityAlwaysEmpty ==
    maxlen = 0 =>
        /\ items = <<>>
        /\ last.pre = <<>>
        /\ last.op = "len" => last.ret = 0
        /\ last.op = "list" => last.ret = <<>>

\* C10 case: append then len() on a deque of capacity 0
C10_Witness ==
    /\ maxlen = 0
    /\ prev.op = "append" /\ last.op = "len" /\ last.ret = 0

\* C11: list(dq) changes nothing: contents, order, count and capacity are what
\* they were before the call, the list returned is the contents oldest first,
\* and a second list(dq) right after the first returns an equal list.
C11_ListIsReadOnly ==
    /\ last.op = "list" =>
          /\ items = last.pre
          /\ Len(items) = Len(last.pre)
          /\ maxlen = last.premaxlen
          /\ last.ret = last.pre
    /\ (last.op = "list" /\ prev.op = "list") => last.ret = prev.ret

\* C11 case: list(dq) called twice in a row on a deque holding two different
\* elements
C11_Witness ==
    /\ last.op = "list" /\ prev.op = "list"
    /\ Len(items) >= 2 /\ items[1] # items[2]
    /\ last.ret = items

\* C12: while the capacity is larger than the number of elements ever inserted,
\* the bounded deque and the unbounded one hold the same contents after every
\* call, their pops return the same value and raise on the same calls, and no
\* insertion evicts anything.
Inserts == {"append", "appendleft"}

C12_LikeUnboundedBelowCapacity ==
    inserted < maxlen =>
        /\ items = ref
        /\ last.op \in Pops => (last.ret = refOut.ret /\ last.err = refOut.err)
        /\ last.op \in Inserts => Len(items) = Len(last.pre) + 1
        /\ last.op = "deque" => items = last.arg

\* C12 case: both ends have been inserted at and a pop has returned a value,
\* all below the capacity
C12_Witness ==
    /\ inserted < maxlen /\ inserted >= 2
    /\ last.op = "pop" /\ last.err = NoError
    /\ prev.op = "appendleft" /\ Len(prev.pre) >= 1
    /\ prev.arg # prev.pre[1]

\* what class1.lock / class2.lock evaluate to
LockOf(i) == getattr(lockClass, lockDict[i], "lock")
HasOwnLock(i) == "lock" \in DOMAIN lockDict[i]

\* C14 as stated: two instances of MyClassLock never refer to the same lock
\* object, at creation and after any instance-level assignment.
C14_LockPerInstance ==
    \A i, j \in LockInstances : i # j => LockOf(i) # LockOf(j)

LockShared ==
    /\ lockClass.lock = TheLock
    /\ \A i \in LockInstances :
          IF HasOwnLock(i) THEN LockOf(i) = lockDict[i].lock ELSE LockOf(i) = TheLock
    /\ \A i, j \in LockInstances :
          (~HasOwnLock(i) /\ ~HasOwnLock(j)) => LockOf(i) = LockOf(j)

\* C14 amended: the lock is a class-level attribute.  Instances without a lock
\* attribute of their own all refer to the one lock made in the class body, so
\* two instances refer to the same lock at creation; an instance-level
\* assignment changes what that instance refers to and nothing else.
C14_LockSharedUntilAssigned ==
    /\ LockShared
    /\ \A i \in LockInstances : ~HasOwnLock(i)
    /\ [][/\ LockShared'
          /\ stmt'.op = "lock=" =>
                /\ "lock" \in DOMAIN lockDict'[stmt'.who]
                /\ \A j \in LockInstances \ {stmt'.who} : LockOf(j)' = LockOf(j)]_vars

\* C14 case: the notebook's class1.lock=1, after which class2 still has the
\* class's lock
C14_Witness ==
    /\ stmt.op = "lock=" /\ stmt.who = "class1"
    /\ LockOf("class1") = "1"
    /\ ~HasOwnLock("class2") /\ LockOf("class2") = TheLock

Count(x, seq) == Cardinality({k \in DOMAIN seq : seq[k] = x})

\* C15: however many Singleton() calls are made, one object is created, by the
\* first call, and every call returns it.
C15_OneInstance ==
    /\ refs = <<>> => (Singleton_instance = None /\ objects = <<>> /\ stdout = <<>>)
    /\ refs # <<>> =>
          /\ Len(objects) = 1
          /\ Singleton_instance = 1
          /\ stdout[1] = Creating
          /\ Count(Creating, stdout) = 1
          /\ \A k \in DOMAIN refs : refs[k] = Singleton_instance
          /\ \A k, l \in DOMAIN refs : refs[k] = refs[l]

\* C15 case: the notebook's singleton1 and singleton2, and one call more
C15_Witness ==
    /\ Len(refs) = 3
    /\ refs[1] = refs[2] /\ refs[2] = refs[3]

InstanceInitialized ==
    /\ Singleton_instance # None
    /\ "_is_initialized" \in DOMAIN objects[Singleton_instance]
    /\ objects[Singleton_instance]._is_initialized = TRUE

\* C16: the body of __init__ runs on the first Singleton() call and on no
\* other; every later call prints "Instance already initialized" and changes
\* no object; _is_initialized, once True on the instance, stays True.
C16_InitializedOnce ==
    [][/\ InstanceInitialized => InstanceInitialized'
       /\ Count(Initializing, stdout') = (IF refs' = <<>> THEN 0 ELSE 1)
       /\ Count(AlreadyInitialized, stdout') = (IF refs' = <<>> THEN 0 ELSE Len(refs') - 1)
       /\ stmt'.op = "Singleton()" =>
             IF refs = <<>>
             THEN /\ stdout' = <<Creating, Initializing>>
                  /\ InstanceInitialized'
             ELSE /\ stdout' = Append(stdout, AlreadyInitialized)
                  /\ objects' = objects
                  /\ Singleton_instance' = Singleton_instance]_vars

\* C16 case: three calls, with the notebook's output and one line more
C16_Witness ==
    /\ Len(refs) = 3
    /\ stdout = <<Creating, Initializing, AlreadyInitialized, AlreadyInitialized>>
    /\ InstanceInitialized

\* C17: with open_file and with open_file2 the file is open all through the
\* body of the with block and has not been released; once the block has ended,
\* normally or by an exception, the file is closed and was released once.
C17_ReleasedOnceAfterBlock ==
    /\ pc = "body" => (file.open /\ file.closes = 0)
    /\ pc = "done" =>
          /\ ~file.open
          /\ file.closes = 1
          /\ raised \in {NoError} \cup BlockExceptions
    /\ pc \in {"idle", "failed"} => (~file.open /\ file.closes = 0)

\* C17 case: the body of a with open_file block wrote and then raised
C17_Witness ==
    /\ pc = "done" /\ cm = "open_file"
    /\ writes = 1 /\ raised = "Exception"
    /\ ~file.open /\ file.closes = 1

\* what instance1.shared_var / instance2.shared_var evaluate to
SharedOf(i) == getattr(sharedClass, sharedDict[i], "shared_var")
HasOwnShared(i) == "shared_var" \in DOMAIN sharedDict[i]

SharedLookup ==
    \A i \in SharedInstances :
        SharedOf(i) = (IF HasOwnShared(i) THEN sharedDict[i].shared_var
                                          ELSE sharedClass.shared_var)

\* C18: an instance reads its own shared_var if it has one, else the class's;
\* an instance-level assignment changes no other instance's reading; a
\* class-level assignment changes the reading of exactly the instances without
\* a value of their own; after del the instance reads the class's value.
C18_InstanceThenClass ==
    /\ SharedLookup
    /\ [][/\ SharedLookup'
          /\ stmt'.op = "shared_var=" =>
                /\ "shared_var" \in DOMAIN sharedDict'[stmt'.who]
                /\ sharedClass' = sharedClass
                /\ \A j \in SharedInstances \ {stmt'.who} : SharedOf(j)' = SharedOf(j)
          /\ stmt'.op = "MyClass.shared_var=" =>
                \A j \in SharedInstances :
                    IF HasOwnShared(j) THEN SharedOf(j)' = SharedOf(j)
                    ELSE SharedOf(j)' = sharedClass'.shared_var
          /\ (stmt'.op = "del shared_var" /\ stmt'.err = NoError) =>
                /\ sharedClass' = sharedClass
                /\ getattr(sharedClass', sharedDict'[stmt'.who], "shared_var")
                      = sharedClass.shared_var
                /\ \A j \in SharedInstances \ {stmt'.who} : SharedOf(j)' = SharedOf(j)]_vars

\* C18 case: the notebook's end: instance1 had 20, the class was set to 30,
\* and after del instance1 reads 30
C18_Witness ==
    /\ stmt.op = "del shared_var" /\ stmt.who = "instance1" /\ stmt.err = NoError
    /\ sharedClass.shared_var = 30
    /\ SharedOf("instance1") = 30 /\ SharedOf("instance2") = 30

====
